---- MODULE Spec2Model ----
(***************************************************************************)
(* Retrieval backend of sro_bot: the chunker of backend/rag.py and the     *)
(* /reload and /ask handlers of backend/app.py over the module globals     *)
(* MODEL, INDEX, CHUNKS, EMB.                                              *)
(*                                                                         *)
(* Two specifications share the module:                                    *)
(*   SpecChunk  runs load_chunks' loop, one iteration per step, on inputs  *)
(*              drawn from bounded sets;                                   *)
(*   Spec       runs the handlers as the asyncio event loop schedules      *)
(*              them: a coroutine runs without interruption up to its      *)
(*              first await that really suspends.                          *)
(***************************************************************************)
EXTENDS Integers, Sequences, FiniteSets, TLC

\* ------------------------------------------------------------------------
\* Bounds of the model
\* ------------------------------------------------------------------------
\* longest corpus text the chunker is run on
MaxLen == 10
\* chunk_size and overlap range over MinCfg..MaxCfg
MaxCfg == 4
MinCfg == 0 - 1

\* ------------------------------------------------------------------------
\* Texts: a string is the sequence of its characters
\* ------------------------------------------------------------------------
Letters == <<"A", "B", "C", "D", "E", "F", "G", "H", "I", "J", "K", "L", "M",
             "N", "O", "P", "Q", "R", "S", "T", "U", "V", "W", "X", "Y", "Z">>

Min(a, b) == IF a < b THEN a ELSE b
Max(a, b) == IF a > b THEN a ELSE b

\* the first n letters: "ABCDEFGHIJ" is Prefix(10)
Prefix(n) == SubSeq(Letters, 1, Min(n, Len(Letters)))

\* Python's text[a:b]: a negative bound counts from the end, both bounds are
\* clamped to 0..len(text), an empty range gives ""
PyBound(i, n) == IF i < 0 THEN Max(i + n, 0) ELSE Min(i, n)
PySlice(text, a, b) ==
    LET lo == PyBound(a, Len(text))
        hi == PyBound(b, Len(text))
    IN  IF lo < hi THEN SubSeq(text, lo + 1, hi) ELSE <<>>

\* ------------------------------------------------------------------------
\* load_chunks (backend/rag.py)
\* ------------------------------------------------------------------------
\* end = min(start + chunk_size, len(text))
chunk_end(start, chunk_size, n) == Min(start + chunk_size, n)

\* a step that ignores the overlap whenever it can
chunk_step_no_overlap(chunk_size, overlap) == Max(1, chunk_size)
\* a step that skips one character more than the chunk covers
chunk_step_gap(chunk_size, overlap) == Max(1, chunk_size - overlap + 1)
\* a step without the floor of 1: no progress when overlap >= chunk_size
chunk_step_stuck(chunk_size, overlap) == chunk_size - overlap
\* start += max(1, chunk_size - overlap)
chunk_step(chunk_size, overlap) == Max(1, chunk_size - overlap)

RECURSIVE chunk_loop(_, _, _, _, _)
chunk_loop(text, chunk_size, overlap, start, chunks) ==
    IF start < Len(text)
    THEN chunk_loop(text, chunk_size, overlap,
                    start + chunk_step(chunk_size, overlap),
                    Append(chunks,
                           PySlice(text, start,
                                   chunk_end(start, chunk_size, Len(text)))))
    ELSE chunks

\* the list load_chunks returns for a file holding `text`
load_chunks(text, chunk_size, overlap) ==
    chunk_loop(text, chunk_size, overlap, 0, <<>>)

VARIABLES
    \* ---- SpecChunk: one call of load_chunks ----
    lc_text,        \* text read from md_path
    lc_size,        \* chunk_size
    lc_overlap,     \* overlap
    lc_start,       \* start
    lc_chunks,      \* chunks
    lc_pc,          \* "call", "loop", "done"
    lc_starts,      \* history: the value of start at each append
    \* ---- Spec: the module globals of backend/app.py ----
    PROMPT_TEXT,
    MODEL,          \* None or the name of the loaded embedding model
    INDEX,          \* None or the index built by build_index
    CHUNKS,         \* list of chunk texts
    EMB,            \* None or the embedding matrix, one row per chunk
    \* ---- Spec: requests ----
    asks,           \* the /ask requests: position in the handler, locals, response
    log_rows,       \* rows of the logs table (AUTOINCREMENT id of the last one)
    reload_resp,    \* the last /reload request and its response
    \* ---- Spec: history ----
    reloads,        \* number of /reload calls so far
    gen,            \* which reload call wrote each global (0: module load)
    last_ok,        \* number of the last reload call that returned normally
    \* ---- SpecLoop: the event loop ----
    reload_running, \* the event loop is inside reload_state
    arrived         \* history: per ask, the reload call during which the
                    \* request reached the server (0: none)

app_vars == <<PROMPT_TEXT, MODEL, INDEX, CHUNKS, EMB, asks, log_rows,
              reload_resp, reloads, gen, last_ok>>

loop_vars == <<reload_running, arrived>>

lc_vars == <<lc_text, lc_size, lc_overlap, lc_start, lc_chunks, lc_pc,
             lc_starts>>


CfgRange == MinCfg..MaxCfg

lc_Init ==
    /\ lc_text \in {Prefix(n) : n \in 0..MaxLen}
    /\ lc_size \in CfgRange
    /\ lc_overlap \in CfgRange
    /\ lc_start = 0
    /\ lc_chunks = <<>>
    /\ lc_starts = <<>>
    /\ lc_pc = "call"

\* chunks = []; start = 0
lc_enter ==
    /\ lc_pc = "call"
    /\ lc_chunks' = <<>>
    /\ lc_start' = 0
    /\ lc_starts' = <<>>
    /\ lc_pc' = "loop"
    /\ UNCHANGED <<lc_text, lc_size, lc_overlap>>

\* one iteration of: while start < len(text)
lc_iterate ==
    /\ lc_pc = "loop"
    /\ lc_start < Len(lc_text)
    /\ lc_chunks' = Append(lc_chunks,
                           PySlice(lc_text, lc_start,
                                   chunk_end(lc_start, lc_size, Len(lc_text))))
    /\ lc_starts' = Append(lc_starts, lc_start)
    /\ lc_start' = lc_start + chunk_step(lc_size, lc_overlap)
    /\ UNCHANGED <<lc_text, lc_size, lc_overlap, lc_pc>>

\* the loop condition fails: return chunks
lc_return ==
    /\ lc_pc = "loop"
    /\ ~(lc_start < Len(lc_text))
    /\ lc_pc' = "done"
    /\ UNCHANGED <<lc_text, lc_size, lc_overlap, lc_start, lc_chunks,
                   lc_starts>>

\* the chunker is not running (Spec)
lc_Idle ==
    /\ lc_text = <<>>
    /\ lc_size = 0
    /\ lc_overlap = 0
    /\ lc_start = 0
    /\ lc_chunks = <<>>
    /\ lc_starts = <<>>
    /\ lc_pc = "done"

\* ------------------------------------------------------------------------
\* Optional values: None, or a value that is set
\* ------------------------------------------------------------------------
None == <<>>
Some(x) == <<x>>
Val(o) == o[1]

\* ------------------------------------------------------------------------
\* Embedder and index (backend/rag.py)
\* ------------------------------------------------------------------------
\* model.encode of one text: a vector that depends on the model and on the
\* characters of the text (one coordinate per character of the alphabet)
encode(model, text) ==
    [model |-> model, feat |-> {text[i] : i \in 1..Len(text)}]

\* embed_texts: one row per text, in the order of texts
embed_texts(model, texts) ==
    [i \in 1..Len(texts) |-> encode(model, texts[i])]

\* build_index reads embeddings.shape[1]: a matrix without rows has no
\* second dimension and the read raises IndexError
build_index_raises(embeddings) == Len(embeddings) = 0

\* IndexFlatIP(dim) followed by index.add(embeddings)
build_index(embeddings) ==
    [ntotal |-> Len(embeddings), xb |-> embeddings]

\* inner product of the query with a stored vector
inner_product(q, v) == Cardinality(q.feat \cap v.feat)

\* faiss rejects a non-positive k
search_raises(index, top_k) == top_k <= 0

\* index.search(query_vec, top_k)[1][0]: the top_k positions (0-based) by
\* descending score, the lower position first among equals, -1 where the
\* index holds fewer than top_k vectors
search(index, q, top_k) ==
    LET score(i) == inner_product(q, index.xb[i])
        before(j, i) == \/ score(j) > score(i)
                        \/ score(j) = score(i) /\ j < i
        rank(i) == Cardinality({j \in 1..index.ntotal : before(j, i)}) + 1
    IN  [r \in 1..top_k |->
            IF r <= index.ntotal
            THEN (CHOOSE i \in 1..index.ntotal : rank(i) = r) - 1
            ELSE 0 - 1]

\* ------------------------------------------------------------------------
\* Inputs of the handlers
\* ------------------------------------------------------------------------
\* number of /reload calls
MaxReloads == 2
\* number of /ask requests
MaxAsks == 1

\* (contents of the knowledge file, CHUNK_SIZE, CHUNK_OVERLAP) at the time
\* of a reload: an empty corpus, two corpora of different length, and one
\* configuration that violates 0 <= overlap < chunk_size
Environments ==
    {<<<<>>, 2, 0>>,
     <<<<"A", "B", "C">>, 2, 0>>,
     <<<<"A", "B", "C">>, 2, 2>>,
     <<<<"X", "Y">>, 2, 0>>}
\* EMBEDDING_MODEL
ModelNames == {"e5"}
\* contents of the prompt file (stripped): here the file is empty or missing
PromptFiles == {""}
\* the call of reload_state that raises, if any
FailPoints == {"none", "load_chunks", "get_model", "embed_texts",
               "build_index"}
\* (question, top_k) of an AskRequest: the empty question, and a question
\* without top_k and with a negative, a zero and a positive top_k
AskRequests ==
    {<<<<>>, None>>} \cup
    {<<<<"B", "Y">>, k>> : k \in {None, Some(0 - 1), Some(0), Some(2)}}

\* os.getenv("TOP_K", 4)
TOP_K == 4

DefaultPrompt == "default prompt"

\* load_prompt_file: the stripped file text, the default when it is empty
\* or the file cannot be read
load_prompt_file(file) == IF file # "" THEN file ELSE DefaultPrompt

\* ------------------------------------------------------------------------
\* State after import of backend/app.py
\* ------------------------------------------------------------------------
AskIds == 1..MaxAsks

NoAsk ==
    [pc |-> "idle", question |-> <<>>, top_k |-> None, status |-> 0,
     context |-> <<>>, answer |-> <<>>, log_id |-> 0,
     k |-> 0, I |-> <<>>,
     embed_calls |-> 0, search_calls |-> 0,
     start_ok |-> 0, start_gen |-> 0, start_chunks |-> <<>>,
     read_gen |-> [CHUNKS |-> 0, MODEL |-> 0, EMB |-> 0, INDEX |-> 0]]

app_Init ==
    /\ PROMPT_TEXT = ""
    /\ MODEL = "None"
    /\ INDEX = None
    /\ CHUNKS = <<>>
    /\ EMB = None
    /\ asks = [r \in AskIds |-> NoAsk]
    /\ log_rows = 0
    /\ reload_resp = [status |-> "none", chunk_size |-> 0, overlap |-> 0,
                      raised_in |-> "none", chunks |-> 0]
    /\ reloads = 0
    /\ gen = [CHUNKS |-> 0, MODEL |-> 0, EMB |-> 0, INDEX |-> 0]
    /\ last_ok = 0

\* ------------------------------------------------------------------------
\* POST /reload
\* ------------------------------------------------------------------------
\* reload_state has no await: the event loop runs it from its first line to
\* its return, or to the call that raises. Each global is assigned as soon
\* as its value is computed.
reload_state(text, chunk_size, overlap, model_name, prompt_file, fail) ==
    LET n == reloads + 1
        new_chunks == load_chunks(text, chunk_size, overlap)
        new_emb == embed_texts(model_name, new_chunks)
        chunks_set == fail # "load_chunks"
        model_set == chunks_set /\ fail # "get_model"
        emb_set == model_set /\ fail # "embed_texts"
        index_set == /\ emb_set
                     /\ fail # "build_index"
                     /\ ~build_index_raises(new_emb)
    IN  /\ reloads < MaxReloads
        /\ reloads' = n
        /\ PROMPT_TEXT' = load_prompt_file(prompt_file)
        /\ CHUNKS' = IF chunks_set THEN new_chunks ELSE CHUNKS
        /\ MODEL' = IF model_set THEN model_name ELSE MODEL
        /\ EMB' = IF emb_set THEN Some(new_emb) ELSE EMB
        /\ INDEX' = IF index_set THEN Some(build_index(new_emb)) ELSE INDEX
        /\ gen' = [CHUNKS |-> IF chunks_set THEN n ELSE gen.CHUNKS,
                   MODEL |-> IF model_set THEN n ELSE gen.MODEL,
                   EMB |-> IF emb_set THEN n ELSE gen.EMB,
                   INDEX |-> IF index_set THEN n ELSE gen.INDEX]
        /\ last_ok' = IF index_set THEN n ELSE last_ok
        /\ reload_resp' =
              [status |-> IF index_set THEN "reloaded" ELSE "500",
               chunk_size |-> chunk_size, overlap |-> overlap,
               raised_in |-> IF index_set THEN "none"
                             ELSE IF ~chunks_set THEN "load_chunks"
                             ELSE IF ~model_set THEN "get_model"
                             ELSE IF ~emb_set THEN "embed_texts"
                             ELSE "build_index",
               chunks |-> IF index_set THEN Len(new_chunks) ELSE 0]
        /\ UNCHANGED <<asks, log_rows>>

Reload ==
    \E env \in Environments, model_name \in ModelNames,
       prompt_file \in PromptFiles, fail \in FailPoints :
        reload_state(env[1], env[2], env[3], model_name, prompt_file, fail)

\* ------------------------------------------------------------------------
\* POST /ask
\* ------------------------------------------------------------------------
\* a readiness check that looks at the model only
not_ready_model_only == MODEL = "None"
\* _ensure_ready raises 503: any(x is None for x in [MODEL, INDEX, CHUNKS, EMB])
\* (CHUNKS is a list from import on and is never None)
not_ready == MODEL = "None" \/ INDEX = None \/ EMB = None

\* int(req.top_k or os.getenv("TOP_K", 4)): a missing top_k and top_k = 0
\* are both falsy
effective_top_k(top_k) ==
    IF top_k = None \/ Val(top_k) = 0 THEN TOP_K ELSE Val(top_k)

\* a filter that keeps every position, the sentinel -1 included
keep_position_all(i) == TRUE
\* the filter of the list comprehension: if i >= 0
keep_position(i) == i >= 0

\* Python's list[i]: a negative i counts from the end; IndexError outside
\* -len(list)..len(list)-1
py_getitem_raises(list, i) == i >= Len(list) \/ i < 0 - Len(list)
py_getitem(list, i) == IF i < 0 THEN list[Len(list) + i + 1] ELSE list[i + 1]

\* _compose_prompt
compose_prompt(question, context) ==
    [system |-> PROMPT_TEXT, question |-> question, context |-> context]

\* _answer_with_gigachat: a text that is a function of the prompt
answer_with_gigachat(prompt) == [answer_to |-> prompt]

\* The handler from the check of readiness to `await insert_log(...)`, run
\* on the globals as they are now. `begin` holds what was recorded when the
\* handler was entered. Result: the request's new record.
ask_run(question, top_k, begin) ==
    LET k == effective_top_k(top_k)
        q_emb == embed_texts(MODEL, <<question>>)
        I == search(Val(INDEX), q_emb[1], k)
        hits == SelectSeq(I, keep_position)
        selected == [j \in 1..Len(hits) |-> py_getitem(CHUNKS, hits[j])]
        req == [begin EXCEPT !.question = question, !.top_k = top_k]
    IN  IF not_ready
        THEN [req EXCEPT !.pc = "done", !.status = 503]
        ELSE IF MODEL = "None" \/ INDEX = None
        THEN \* None has no encode and no search: AttributeError
             [req EXCEPT !.pc = "done", !.status = 500,
                         !.embed_calls = 1,
                         !.search_calls = IF MODEL = "None" THEN 0 ELSE 1,
                         !.read_gen = gen]
        ELSE IF search_raises(Val(INDEX), k)
        THEN [req EXCEPT !.pc = "done", !.status = 500, !.k = k,
                         !.embed_calls = 1, !.search_calls = 1,
                         !.read_gen = gen]
        ELSE IF \E j \in 1..Len(hits) : py_getitem_raises(CHUNKS, hits[j])
        THEN \* CHUNKS[i] raises IndexError
             [req EXCEPT !.pc = "done", !.status = 500, !.k = k, !.I = I,
                         !.embed_calls = 1, !.search_calls = 1,
                         !.read_gen = gen]
        ELSE [req EXCEPT !.pc = "insert_log", !.k = k, !.I = I,
                         !.embed_calls = 1, !.search_calls = 1,
                         !.read_gen = gen,
                         !.context = selected,
                         !.answer = answer_with_gigachat(
                                        compose_prompt(question, selected))]

\* what the history records when the handler is entered
ask_begin ==
    [NoAsk EXCEPT !.start_ok = last_ok, !.start_gen = gen.CHUNKS,
                  !.start_chunks = CHUNKS]

\* a handler whose `await _ensure_ready()` gives control back to the event
\* loop before the globals are read
ask_suspending(r, question, top_k) ==
    /\ \/ /\ asks[r].pc = "idle"
          /\ asks' = [asks EXCEPT ![r] =
                        [ask_begin EXCEPT !.pc = "ready",
                                          !.question = question,
                                          !.top_k = top_k]]
       \/ /\ asks[r].pc = "ready"
          /\ question = asks[r].question
          /\ top_k = asks[r].top_k
          /\ asks' = [asks EXCEPT ![r] = ask_run(question, top_k, asks[r])]
    /\ UNCHANGED <<PROMPT_TEXT, MODEL, INDEX, CHUNKS, EMB, log_rows,
                   reload_resp, reloads, gen, last_ok>>

\* a handler that keeps the passages it selected in the global CHUNKS
ask_overwriting(r, question, top_k) ==
    /\ asks[r].pc = "idle"
    /\ asks' = [asks EXCEPT ![r] = ask_run(question, top_k, ask_begin)]
    /\ CHUNKS' = IF asks'[r].pc = "insert_log" THEN asks'[r].context
                 ELSE CHUNKS
    /\ UNCHANGED <<PROMPT_TEXT, MODEL, INDEX, EMB, log_rows,
                   reload_resp, reloads, gen, last_ok>>

\* ask, from its first line to the first await that suspends: awaiting
\* _ensure_ready() runs it inline (it awaits nothing), embed_texts, search
\* and the LLM call are ordinary calls, insert_log waits for the database
ask(r, question, top_k) ==
    /\ asks[r].pc = "idle"
    /\ asks' = [asks EXCEPT ![r] = ask_run(question, top_k, ask_begin)]
    /\ UNCHANGED <<PROMPT_TEXT, MODEL, INDEX, CHUNKS, EMB, log_rows,
                   reload_resp, reloads, gen, last_ok>>

\* insert_log completes (the row gets the next AUTOINCREMENT id) and ask
\* returns its AskResponse
insert_log(r) ==
    /\ asks[r].pc = "insert_log"
    /\ log_rows' = log_rows + 1
    /\ asks' = [asks EXCEPT ![r] =
                  [@ EXCEPT !.pc = "done", !.status = 200,
                            !.log_id = log_rows + 1]]
    /\ UNCHANGED <<PROMPT_TEXT, MODEL, INDEX, CHUNKS, EMB, reload_resp,
                   reloads, gen, last_ok>>

\* requests are numbered in the order in which their handlers are entered
Ask == \E r \in AskIds, req \in AskRequests :
          /\ \A e \in AskIds : e < r => asks[e].pc # "idle"
          /\ ask(r, req[1], req[2])

InsertLog == \E r \in AskIds : insert_log(r)

\* ------------------------------------------------------------------------
\* Specifications
\* ------------------------------------------------------------------------
vars == <<lc_vars, app_vars, loop_vars>>

\* the event loop is free and no request is waiting for it
loop_Idle ==
    /\ reload_running = FALSE
    /\ arrived = [r \in AskIds |-> 0]

Init == app_Init /\ lc_Idle /\ loop_Idle

Next ==
    \/ Reload /\ UNCHANGED <<lc_vars, loop_vars>>
    \/ Ask /\ UNCHANGED <<lc_vars, loop_vars>>
    \/ InsertLog /\ UNCHANGED <<lc_vars, loop_vars>>

Spec == Init /\ [][Next]_vars

InitChunk == lc_Init /\ app_Init /\ loop_Idle

NextChunk ==
    \/ lc_enter /\ UNCHANGED <<app_vars, loop_vars>>
    \/ lc_iterate /\ UNCHANGED <<app_vars, loop_vars>>
    \/ lc_return /\ UNCHANGED <<app_vars, loop_vars>>

SpecChunk == InitChunk /\ [][NextChunk]_vars

\* a call of load_chunks that has started keeps executing
SpecChunkFair == SpecChunk /\ WF_vars(NextChunk)

\* ------------------------------------------------------------------------
\* SpecLoop: the same handlers, with the time a reload takes made visible.
\* The event loop runs one coroutine at a time and reload_state never
\* awaits, so from the moment the loop enters reload_state until it returns
\* or raises no other handler runs; requests that reach the server in the
\* meantime wait.
\* ------------------------------------------------------------------------
\* the event loop enters reload_state
reload_enter ==
    /\ ~reload_running
    /\ reloads < MaxReloads
    /\ reload_running' = TRUE
    /\ UNCHANGED <<app_vars, arrived>>

\* reload_state runs to its return or to the call that raises
reload_finish ==
    /\ reload_running
    /\ Reload
    /\ reload_running' = FALSE
    /\ UNCHANGED arrived

\* an /ask request reaches the server while reload_state is running
ask_arrives(r) ==
    /\ reload_running
    /\ asks[r].pc = "idle"
    /\ arrived[r] = 0
    /\ \A e \in AskIds : e < r => (asks[e].pc # "idle" \/ arrived[e] # 0)
    /\ arrived' = [arrived EXCEPT ![r] = reloads + 1]
    /\ UNCHANGED <<app_vars, reload_running>>

\* the event loop, when it is free, enters the handler of request r
ask_on_loop(r) ==
    /\ ~reload_running
    /\ \E req \in AskRequests : ask(r, req[1], req[2])
    /\ \A e \in AskIds : e < r => asks[e].pc # "idle"
    /\ UNCHANGED loop_vars

\* the event loop, when it is free, resumes ask after insert_log
insert_log_on_loop(r) ==
    /\ ~reload_running
    /\ insert_log(r)
    /\ UNCHANGED loop_vars

NextLoop ==
    \/ reload_enter /\ UNCHANGED lc_vars
    \/ reload_finish /\ UNCHANGED lc_vars
    \/ (\E r \in AskIds : ask_arrives(r)) /\ UNCHANGED lc_vars
    \/ (\E r \in AskIds : ask_on_loop(r)) /\ UNCHANGED lc_vars
    \/ (\E r \in AskIds : insert_log_on_loop(r)) /\ UNCHANGED lc_vars

SpecLoop == Init /\ [][NextLoop]_vars

\* ------------------------------------------------------------------------
\* Properties of reload_state and ask (Spec)
\* ------------------------------------------------------------------------
active == <<CHUNKS, MODEL, EMB, INDEX>>

\* the chunker's precondition as the specification states it
ValidConfig(chunk_size, overlap) ==
    chunk_size > 0 /\ 0 <= overlap /\ overlap < chunk_size

\* the step is a call of reload_state that raised
ReloadFailedStep == reloads' = reloads + 1 /\ reload_resp'.status = "500"

\* the request has got past the readiness check and read the globals
HasRead(r) == asks[r].pc # "idle" /\ asks[r].embed_calls = 1

\* the request has a passage list to return
HasContext(r) == asks[r].pc = "insert_log" \/ asks[r].status = 200

\* C1: once a reload has succeeded, a reload that fails, at whichever call,
\* leaves CHUNKS, MODEL, EMB and INDEX exactly as they were before it
\* started.
C1_FailedReloadLeavesActiveState ==
    [][(last_ok >= 1 /\ ReloadFailedStep) => active' = active]_vars

\* C2: every ask that reads the globals reads CHUNKS, MODEL, EMB and INDEX
\* written by one and the same reload.
C2_AskReadsOneGeneration ==
    \A r \in AskIds :
        HasRead(r) =>
            /\ asks[r].read_gen.CHUNKS = asks[r].read_gen.INDEX
            /\ asks[r].read_gen.MODEL = asks[r].read_gen.INDEX
            /\ asks[r].read_gen.EMB = asks[r].read_gen.INDEX

\* C3: whenever the readiness check would pass, CHUNKS, EMB and INDEX have
\* the same length and entry i of the index is the embedding of chunk i.
C3_ParallelCollections ==
    ~not_ready =>
        /\ Len(CHUNKS) = Len(Val(EMB))
        /\ Len(CHUNKS) = Val(INDEX).ntotal
        /\ \A i \in 1..Len(CHUNKS) :
              /\ i <= Val(INDEX).ntotal
              /\ Val(INDEX).xb[i] = encode(MODEL, CHUNKS[i])

\* C4: the passages an ask returns are chunks of one corpus: the one that
\* was in CHUNKS when the handler was entered, which is the corpus of the
\* last reload completed before that or of a later reload call; a reload
\* that starts after the handler was entered does not change them.
C4_AskReturnsOneCorpus ==
    \A r \in AskIds :
        HasContext(r) =>
            /\ asks[r].read_gen.CHUNKS >= asks[r].start_ok
            /\ asks[r].read_gen.CHUNKS = asks[r].start_gen
            /\ \A j \in 1..Len(asks[r].context) :
                  \E i \in 1..Len(asks[r].start_chunks) :
                      asks[r].context[j] = asks[r].start_chunks[i]

\* an ask entered after a successful reload has returned 200 with passages,
\* and a later reload call has replaced CHUNKS while it waited for the log
C4_Witness ==
    \E r \in AskIds :
        /\ asks[r].status = 200
        /\ Len(asks[r].context) > 0
        /\ asks[r].start_ok >= 1
        /\ gen.CHUNKS > asks[r].start_gen

\* C5: an ask handled while no reload has completed successfully fails with
\* 503 and calls neither the embedding model nor the index search.
C5_NotReadyBeforeFirstSuccess ==
    \A r \in AskIds :
        (asks[r].pc # "idle" /\ asks[r].start_ok = 0) =>
            /\ asks[r].pc = "done"
            /\ asks[r].status = 503
            /\ asks[r].embed_calls = 0
            /\ asks[r].search_calls = 0

\* the only reload so far read an empty corpus and raised in build_index,
\* after it had replaced CHUNKS, MODEL and EMB; an ask entered after it was
\* refused with 503
C5_Witness ==
    \E r \in AskIds :
        /\ asks[r].status = 503
        /\ asks[r].start_ok = 0
        /\ asks[r].start_gen = 1
        /\ reloads = 1
        /\ reload_resp.raised_in = "build_index"
        /\ CHUNKS = <<>>
        /\ MODEL # "None"
        /\ EMB # None

\* C9: a reload whose configuration violates chunk_size > 0 or
\* 0 <= overlap < chunk_size fails: no reload answers "reloaded" for such a
\* configuration.
C9_InvalidConfigRejected ==
    reload_resp.status = "reloaded" =>
        ValidConfig(reload_resp.chunk_size, reload_resp.overlap)

\* C10: an ask with an empty question fails without a call of the embedding
\* model or of the index search.
C10_EmptyQuestionRejected ==
    \A r \in AskIds :
        (asks[r].pc # "idle" /\ asks[r].question = <<>>) =>
            /\ asks[r].pc = "done"
            /\ asks[r].status # 200
            /\ asks[r].embed_calls = 0
            /\ asks[r].search_calls = 0

\* the request has got past the readiness check
PassedReady(r) == asks[r].pc # "idle" /\ asks[r].status # 503

\* C11: an ask without top_k searches with the default TOP_K; an ask whose
\* top_k is 0 or negative fails: it returns no passage list and searches
\* with no other value than the one it was given.
C11_TopKDefaultOrRejected ==
    \A r \in AskIds :
        PassedReady(r) =>
            /\ asks[r].top_k = None =>
                  (asks[r].search_calls = 1 /\ asks[r].k = TOP_K)
            /\ (asks[r].top_k # None /\ Val(asks[r].top_k) <= 0) =>
                  /\ asks[r].pc = "done"
                  /\ asks[r].status # 200
                  /\ asks[r].context = <<>>
                  /\ asks[r].search_calls = 0 \/ asks[r].k = Val(asks[r].top_k)

\* C12: reload calls run one after the other, so once a reload has
\* succeeded the active CHUNKS, MODEL, EMB and INDEX are all the product of
\* a single reload call.
C12_ActiveStateOfOneReload ==
    last_ok >= 1 =>
        /\ gen.CHUNKS = gen.INDEX
        /\ gen.MODEL = gen.INDEX
        /\ gen.EMB = gen.INDEX

\* C13: a reload in progress does not hold an ask back: whenever an earlier
\* reload has succeeded and a request has reached the server during a reload
\* that is still running, the request's handler can take its next step
\* (against the state the earlier reload left).
C13_ReloadDoesNotBlockAsk ==
    \A r \in AskIds :
        (/\ last_ok >= 1
         /\ reload_running
         /\ arrived[r] = reloads + 1
         /\ asks[r].pc = "idle")
            => ENABLED ask_on_loop(r)

\* C14: a step of an ask, whether the ask succeeds or fails, leaves CHUNKS,
\* MODEL, EMB and INDEX as they were; only a reload call changes them.
C14_AskLeavesActiveState ==
    [][/\ asks' # asks => active' = active
       /\ active' # active => reloads' = reloads + 1]_vars

\* with a state active, one ask has failed or returned passages, and no
\* reload has run since the ask read the globals
C14_Witness ==
    \E r \in AskIds :
        /\ asks[r].pc = "done"
        /\ asks[r].status \in {200, 500}
        /\ asks[r].read_gen = gen
        /\ Len(CHUNKS) > 0
        /\ INDEX # None

\* the positions of the search result I that are not the sentinel -1
NonSentinel(I) == SelectSeq(I, LAMBDA i : i >= 0)

\* C15: the passage list of an ask has at most min(top_k, number of chunks)
\* entries (top_k: the value searched with), holds the chunks of the
\* non-sentinel positions of the search result in the order of the result and
\* nothing for a sentinel; a result with sentinels whose other positions are
\* valid is no error.
C15_PassageList ==
    \A r \in AskIds :
        LET a == asks[r]
            hits == NonSentinel(a.I)
        IN  /\ HasContext(r) =>
                  /\ Len(a.I) = a.k
                  /\ Len(a.context) <= Min(a.k, Len(a.start_chunks))
                  /\ Len(a.context) = Len(hits)
                  /\ \A j \in 1..Len(hits) :
                        /\ hits[j] < Len(a.start_chunks)
                        /\ a.context[j] = a.start_chunks[hits[j] + 1]
            /\ (/\ PassedReady(r)
                /\ Len(a.I) > 0
                /\ \A j \in 1..Len(hits) : hits[j] < Len(a.start_chunks))
                  => HasContext(r)

\* an ask searched with more positions than the index holds and returned
\* the passages that exist
C15_Witness ==
    \E r \in AskIds :
        /\ asks[r].status = 200
        /\ \E j \in 1..Len(asks[r].I) : asks[r].I[j] < 0
        /\ Len(asks[r].context) >= 1
        /\ Len(asks[r].context) < asks[r].k

\* C16: every non-sentinel position the index returns to an ask is a valid
\* index into the chunk list, so no ask that passed the readiness check fails
\* on the chunk lookup.
C16_PositionsInRange ==
    \A r \in AskIds :
        PassedReady(r) =>
            \A j \in 1..Len(asks[r].I) :
                asks[r].I[j] >= 0 => asks[r].I[j] < Len(asks[r].start_chunks)

\* ------------------------------------------------------------------------
\* Properties of load_chunks (SpecChunk)
\* ------------------------------------------------------------------------
lc_Valid == ValidConfig(lc_size, lc_overlap)

lc_N == Len(lc_chunks)

\* the span [lc_SpanStart(i), lc_SpanEnd(i)) of the text that chunk i holds
lc_SpanStart(i) == lc_starts[i]
lc_SpanEnd(i) == lc_starts[i] + Len(lc_chunks[i])

\* number of offsets of the text that chunks i and i+1 both hold
lc_Shared(i) == Max(0, lc_SpanEnd(i) - lc_SpanStart(i + 1))

\* the loop and the operator used by reload_state compute the same list
lc_LoopIsOperator ==
    lc_pc = "done" => lc_chunks = load_chunks(lc_text, lc_size, lc_overlap)

lc_Scenario ==
    /\ lc_pc = "done"
    /\ lc_text = <<"A", "B", "C", "D", "E", "F", "G", "H", "I", "J">>
    /\ lc_size = 4
    /\ lc_overlap = 2

\* C6 as stated: "ABCDEFGHIJ" with chunk_size=4, overlap=2 gives exactly the
\* 4 chunks ABCD, CDEF, EFGH, GHIJ.
C6_FourChunks ==
    lc_Scenario =>
        lc_chunks = << <<"A", "B", "C", "D">>, <<"C", "D", "E", "F">>,
                       <<"E", "F", "G", "H">>, <<"G", "H", "I", "J">> >>

\* C6 amended: "ABCDEFGHIJ" with chunk_size=4, overlap=2 gives exactly the
\* 5 chunks ABCD, CDEF, EFGH, GHIJ, IJ, in this order.
C6_FiveChunks ==
    lc_Scenario =>
        lc_chunks = << <<"A", "B", "C", "D">>, <<"C", "D", "E", "F">>,
                       <<"E", "F", "G", "H">>, <<"G", "H", "I", "J">>,
                       <<"I", "J">> >>

C6_Witness == lc_Scenario /\ lc_N = 5

\* C7: for a valid configuration the chunks are contiguous spans of the
\* text with strictly increasing start offsets, and every offset of the
\* text lies in at least one chunk.
C7_SpansCoverText ==
    (lc_pc = "done" /\ lc_Valid) =>
        /\ \A i \in 1..lc_N :
              /\ lc_SpanStart(i) >= 0
              /\ lc_SpanEnd(i) <= Len(lc_text)
              /\ Len(lc_chunks[i]) >= 1
              /\ lc_chunks[i] =
                    SubSeq(lc_text, lc_SpanStart(i) + 1, lc_SpanEnd(i))
        /\ \A i \in 1..(lc_N - 1) : lc_SpanStart(i) < lc_SpanStart(i + 1)
        /\ \A p \in 0..(Len(lc_text) - 1) :
              \E i \in 1..lc_N : lc_SpanStart(i) <= p /\ p < lc_SpanEnd(i)

\* a valid configuration with an overlap, a text longer than one chunk
C7_Witness ==
    /\ lc_pc = "done"
    /\ lc_Valid
    /\ lc_overlap >= 1
    /\ lc_N >= 3
    /\ Len(lc_chunks[lc_N]) < lc_size

\* C8 as stated: for a valid configuration adjacent chunks c_i, c_i+1 share
\* exactly min(overlap, len(c_i)) characters, the pair that ends in the
\* final chunk excepted.
C8_SharedIsMinOfLeft ==
    (lc_pc = "done" /\ lc_Valid) =>
        \A i \in 1..(lc_N - 2) :
            lc_Shared(i) = Min(lc_overlap, Len(lc_chunks[i]))

\* C8 amended: for a valid configuration every pair of adjacent chunks
\* c_i, c_i+1 shares exactly min(overlap, len(c_i+1)) characters: the last
\* that many characters of c_i are the first that many of c_i+1.
C8_SharedIsMinOfRight ==
    (lc_pc = "done" /\ lc_Valid) =>
        \A i \in 1..(lc_N - 1) :
            LET k == Min(lc_overlap, Len(lc_chunks[i + 1]))
                n == Len(lc_chunks[i])
            IN  /\ lc_Shared(i) = k
                /\ k <= n
                /\ SubSeq(lc_chunks[i], n - k + 1, n) =
                      SubSeq(lc_chunks[i + 1], 1, k)

\* a chunk cut short by the end of the text is followed by two more chunks
C8_Witness ==
    /\ lc_pc = "done"
    /\ lc_Valid
    /\ \E i \in 1..(lc_N - 2) : Len(lc_chunks[i]) < lc_size

\* ceil(a / b) for b >= 1
CeilDiv(a, b) == (a + b - 1) \div b

\* what the start offset advances by according to C17
C17_Step == Max(1, lc_size - lc_overlap)

\* C17: load_chunks terminates for every text, chunk_size and overlap,
\* overlap >= chunk_size included: every iteration advances start by
\* max(1, chunk_size - overlap) >= 1; it returns exactly
\* ceil(len(text) / max(1, chunk_size - overlap)) chunks, none for empty text.
C17_LoadChunksTerminates ==
    /\ <>(lc_pc = "done")
    /\ [][(lc_pc = "loop" /\ lc_pc' = "loop") =>
              /\ lc_start' = lc_start + C17_Step
              /\ lc_start' >= lc_start + 1
              /\ Len(lc_chunks') = lc_N + 1]_vars
    /\ [](lc_pc = "loop" => lc_start = lc_N * C17_Step)
    /\ [](lc_pc = "done" =>
              /\ lc_N = CeilDiv(Len(lc_text), C17_Step)
              /\ (lc_text = <<>> => lc_N = 0))

\* a call with overlap >= chunk_size on a non-empty text has returned, with
\* one chunk per character
C17_Witness ==
    /\ lc_pc = "done"
    /\ lc_overlap >= lc_size
    /\ Len(lc_text) >= 3
    /\ lc_N = Len(lc_text)

\* a call on the empty text has returned no chunk
C17_WitnessEmpty == lc_pc = "done" /\ lc_text = <<>> /\ lc_N = 0

====
